---- MODULE Spec2Model ----
(***************************************************************************)
(* Merkle Patricia trie insertion of rusty-receipt-proof-maker             *)
(* (src/src/trie.rs): Trie::put with its find / process / update-stale /   *)
(* commit pipeline, and put_in_trie_recursively driving it.                *)
(*                                                                         *)
(* Rust Vec stacks are sequences with the same order: index 1 here is      *)
(* index 0 in Rust, push appends at the end, pop removes the last element, *)
(* insert(0, x) prepends.                                                  *)
(***************************************************************************)
EXTENDS Integers, Sequences, FiniteSets, TLC

\* ------------------------------------------------------------------ bounds
\* number of distinct nibble values used in keys (nibbles 1..NumNibbles)
NumNibbles == 3
\* longest key, in nibbles
MaxKeyLen == 3
\* number of distinct values
NumValues == 2
\* number of key/value tuples given to put_in_trie_recursively
MaxPuts == 3

NUM_BITS_IN_NIBBLE == 4
\* a branch has one child slot per nibble value 0..15
NUM_BRANCH_SLOTS == 2 ^ NUM_BITS_IN_NIBBLE
\* usize::MAX, capped to the largest integer of the checker; what matters is
\* that a wrapped difference lies beyond the end of every key
USIZE_MAX == 2147483647

Nibs == 1..NumNibbles
\* the keys handed to put: every nibble sequence up to MaxKeyLen, those of
\* the full length over all nibbles but the last one
Keys ==
    {k \in UNION {[1..n -> Nibs] : n \in 0..MaxKeyLen} :
        Len(k) = MaxKeyLen => \A j \in 1..Len(k) : k[j] < NumNibbles}
Values == {<<v>> : v \in 1..NumValues}

\* ------------------------------------------------------------- Result<T>
Ok(v) == [ok |-> TRUE, v |-> v]
Err(e) == [ok |-> FALSE, v |-> e]

Tail2(s) == SubSeq(s, 2, Len(s))
Front(s) == SubSeq(s, 1, Len(s) - 1)
Last(s) == s[Len(s)]

\* ------------------------------------------------------------ nibble_utils
EMPTY_NIBBLES == <<>>

RECURSIVE CommonLen(_, _)
CommonLen(a, b) ==
    IF a = <<>> \/ b = <<>> THEN 0
    ELSE IF a[1] = b[1] THEN 1 + CommonLen(Tail2(a), Tail2(b)) ELSE 0

\* (common prefix, rest of a, rest of b); total
get_common_prefix_nibbles(a, b) ==
    LET n == CommonLen(a, b)
    IN  Ok(<<SubSeq(a, 1, n), SubSeq(a, n + 1, Len(a)), SubSeq(b, n + 1, Len(b))>>)

\* (first nibble, remaining nibbles); fails on the empty sequence
split_at_first_nibble(n) ==
    IF Len(n) = 0 THEN Err("Empty") ELSE Ok(<<<<n[1]>>, Tail2(n)>>)

\* the i-th nibble (0-based); fails past the end
get_nibble_at_index(n, i) ==
    IF i >= 0 /\ i < Len(n) THEN Ok(n[i + 1]) ELSE Err("IndexOutOfRange")

\* a nibble value (one nibble, or the two nibbles of one byte) as a branch index
convert_nibble_to_usize(nibble) ==
    IF Len(nibble) = 1 THEN nibble[1] ELSE 16 * nibble[1] + nibble[2]

\* ------------------------------------------------- hex-prefix, rlp, keccak
RECURSIVE PackNibbles(_)
PackNibbles(ns) ==
    IF ns = <<>> THEN <<>> ELSE <<16 * ns[1] + ns[2]>> \o PackNibbles(SubSeq(ns, 3, Len(ns)))

RECURSIVE UnpackBytes(_)
UnpackBytes(bs) ==
    IF bs = <<>> THEN <<>> ELSE <<bs[1] \div 16, bs[1] % 16>> \o UnpackBytes(Tail2(bs))

\* hex-prefix encoding of a path: flag nibble (leaf 2, odd 1), pad when even
HexPrefixEncode(path, is_leaf) ==
    LET odd == Len(path) % 2
        flag == (IF is_leaf THEN 2 ELSE 0) + odd
    IN  PackNibbles((IF odd = 1 THEN <<flag>> ELSE <<flag, 0>>) \o path)

\* the nibbles of a byte string, two per byte
get_nibbles_from_bytes(bytes) == UnpackBytes(bytes)

HexPrefixIsLeaf(bytes) == UnpackBytes(bytes)[1] >= 2

HexPrefixDecode(bytes) ==
    LET ns == UnpackBytes(bytes)
    IN  IF ns[1] % 2 = 1 THEN Tail2(ns) ELSE SubSeq(ns, 3, Len(ns))

\* the empty byte string as an item of an rlp list
RLP_EMPTY == <<>>

\* rlp(""): the single byte 0x80
RLP_OF_EMPTY_STRING == <<128>>

\* keccak256 is collision free: the H256 digest carries its preimage
Keccak256(bytes) == [h256 |-> bytes]

\* H256 <-> its 32 raw bytes (one item here)
convert_bytes_to_h256(bytes) ==
    IF Len(bytes) = 1 THEN Ok([h256 |-> bytes[1]]) ELSE Err("WrongHashLength")
convert_h256_to_bytes(h) == <<h.h256>>

\* keccak256(rlp("")), the root of the empty trie
HASHED_NULL_NODE == Keccak256(RLP_OF_EMPTY_STRING)

\* --------------------------------------------------------------- trie_nodes
NoBranches == <<>>
EmptyBranches == [n \in 1..NUM_BRANCH_SLOTS |-> <<>>]

get_new_leaf_node(path, value) ==
    Ok([type |-> "leaf", key |-> path, value |-> value, branches |-> NoBranches])

\* mutant: an extension is built whatever the length of its path
get_new_extension_node_any_path(path, child) ==
    Ok([type |-> "extension", key |-> path, value |-> child, branches |-> NoBranches])

\* an extension must have a path of at least one nibble
get_new_extension_node(path, child) ==
    IF Len(path) = 0 THEN Err("EmptyPath")
    ELSE Ok([type |-> "extension", key |-> path, value |-> child, branches |-> NoBranches])

\* get_new_branch_node(None): 16 empty child slots and no value
get_new_branch_node ==
    Ok([type |-> "branch", key |-> <<>>, value |-> <<>>, branches |-> EmptyBranches])

\* slot index is 0-based; the new entry is Some(child bytes)
update_branch_at_index(node, child, index) ==
    IF node.type # "branch" THEN Err("NotABranch")
    ELSE Ok([node EXCEPT !.branches[index + 1] = child])

get_type(node) == node.type
get_key(node) == node.key
get_value(node) == Ok(node.value)
get_key_length(node) == Len(node.key)

get_rlp_encoding(node) ==
    CASE node.type = "leaf" -> <<HexPrefixEncode(node.key, TRUE), node.value>>
      [] node.type = "extension" -> <<HexPrefixEncode(node.key, FALSE), node.value>>
      [] node.type = "branch" -> node.branches \o <<node.value>>

get_hash(node) == Keccak256(get_rlp_encoding(node))

rlp_decode_node(bytes) ==
    IF Len(bytes) = NUM_BRANCH_SLOTS + 1
    THEN [type |-> "branch", key |-> <<>>, value |-> bytes[NUM_BRANCH_SLOTS + 1],
          branches |-> SubSeq(bytes, 1, NUM_BRANCH_SLOTS)]
    ELSE [type |-> IF HexPrefixIsLeaf(bytes[1]) THEN "leaf" ELSE "extension",
          key |-> HexPrefixDecode(bytes[1]), value |-> bytes[2], branches |-> NoBranches]

\* ------------------------------------------------------------ get_database
\* the store: a function from digests to encoded node bytes
get_new_database == <<>>

DbKeys(db) == IF db = <<>> THEN {} ELSE DOMAIN db

put_thing_in_database(db, h, bytes) ==
    [x \in DbKeys(db) \cup {h} |-> IF x = h THEN bytes ELSE db[x]]

remove_thing_from_database(db, h) ==
    IF h \notin DbKeys(db) THEN Err("MissingNode")
    ELSE IF DbKeys(db) = {h} THEN Ok(<<>>)
    ELSE Ok([x \in DbKeys(db) \ {h} |-> db[x]])

\* Ok(None) is Ok(<<>>), Ok(Some(node)) is Ok(<<node>>)
get_node_from_database(db, h) ==
    IF h \in DbKeys(db) THEN Ok(<<rlp_decode_node(db[h])>>) ELSE Ok(<<>>)

\* --------------------------------------------------------------- Trie: find
FindRet(stack, key) == [tag |-> "ret", found_stack |-> stack, key |-> key]
FindRec(stack, key) == [tag |-> "rec", found_stack |-> stack, key |-> key]
FindErr(e) == [tag |-> "err", found_stack |-> <<>>, key |-> <<>>, err |-> e]

continue_finding_from_leaf(db, current_node, found_stack, key) ==
    LET cp == get_common_prefix_nibbles(key, get_key(current_node)).v
        remaining_key == cp[2]
        stack == Append(found_stack, current_node)
    IN  IF Len(remaining_key) = 0
        THEN FindRet(stack, EMPTY_NIBBLES)
        ELSE FindRet(stack, key)

\* mutant: a partial match returns the key shortened by the common prefix
continue_finding_from_extension_shortens(db, current_node, found_stack, key) ==
    LET cp == get_common_prefix_nibbles(key, get_key(current_node)).v
        common_prefix == cp[1]
        remaining_key == cp[2]
        remaining_node_key == cp[3]
        next_node_hash == convert_bytes_to_h256(get_value(current_node).v)
        stack == Append(found_stack, current_node)
    IN  IF ~next_node_hash.ok THEN FindErr(next_node_hash.v)
        ELSE IF Len(common_prefix) = 0 THEN FindRet(stack, key)
        ELSE IF Len(remaining_node_key) > 0 THEN FindRet(stack, remaining_key)
        ELSE LET next_node == get_node_from_database(db, next_node_hash.v).v
             IN  IF next_node # <<>>
                 THEN FindRec(Append(stack, next_node[1]), remaining_key)
                 ELSE FindErr("Extension child not in db")

continue_finding_from_extension(db, current_node, found_stack, key) ==
    LET cp == get_common_prefix_nibbles(key, get_key(current_node)).v
        common_prefix == cp[1]
        remaining_key == cp[2]
        remaining_node_key == cp[3]
        next_node_hash == convert_bytes_to_h256(get_value(current_node).v)
        stack == Append(found_stack, current_node)
    IN  IF ~next_node_hash.ok THEN FindErr(next_node_hash.v)
        ELSE IF Len(common_prefix) = 0 THEN FindRet(stack, key)
        ELSE IF Len(remaining_node_key) > 0 THEN FindRet(stack, key)
        ELSE LET next_node == get_node_from_database(db, next_node_hash.v).v
             IN  IF next_node # <<>>
                 THEN FindRec(Append(stack, next_node[1]), remaining_key)
                 ELSE FindErr("Extension child not in db")

\* mutant: the slot looked at is the one after the slot of the first nibble
continue_finding_from_branch_next_slot(db, current_node, found_stack, key) ==
    LET stack == Append(found_stack, current_node)
        split == split_at_first_nibble(key)
    IN  IF ~split.ok THEN FindErr(split.v)
        ELSE LET first_nibble == split.v[1]
                 remaining_nibbles == split.v[2]
                 child == current_node.branches[convert_nibble_to_usize(first_nibble) + 2]
             IN  IF child = <<>> THEN FindRet(stack, key)
                 ELSE LET h == convert_bytes_to_h256(child)
                      IN  IF ~h.ok THEN FindErr(h.v)
                          ELSE LET next_node == get_node_from_database(db, h.v).v
                               IN  IF next_node # <<>>
                                   THEN FindRec(Append(stack, next_node[1]), remaining_nibbles)
                                   ELSE FindErr("Branch child not in db")

\* mutant: the descent through a branch passes the whole key on
continue_finding_from_branch_keeps_key(db, current_node, found_stack, key) ==
    LET stack == Append(found_stack, current_node)
        split == split_at_first_nibble(key)
    IN  IF ~split.ok THEN FindErr(split.v)
        ELSE LET first_nibble == split.v[1]
                 child == current_node.branches[convert_nibble_to_usize(first_nibble) + 1]
             IN  IF child = <<>> THEN FindRet(stack, key)
                 ELSE LET h == convert_bytes_to_h256(child)
                      IN  IF ~h.ok THEN FindErr(h.v)
                          ELSE LET next_node == get_node_from_database(db, h.v).v
                               IN  IF next_node # <<>>
                                   THEN FindRec(Append(stack, next_node[1]), key)
                                   ELSE FindErr("Branch child not in db")

continue_finding_from_branch(db, current_node, found_stack, key) ==
    LET stack == Append(found_stack, current_node)
        split == split_at_first_nibble(key)
    IN  IF ~split.ok THEN FindErr(split.v)
        ELSE LET first_nibble == split.v[1]
                 remaining_nibbles == split.v[2]
                 child == current_node.branches[convert_nibble_to_usize(first_nibble) + 1]
             IN  IF child = <<>> THEN FindRet(stack, key)
                 ELSE LET h == convert_bytes_to_h256(child)
                      IN  IF ~h.ok THEN FindErr(h.v)
                          ELSE LET next_node == get_node_from_database(db, h.v).v
                               IN  IF next_node # <<>>
                                   THEN FindRec(Append(stack, next_node[1]), remaining_nibbles)
                                   ELSE FindErr("Branch child not in db")

\* one invocation of find_path, up to its recursive call
FindPathCall(db, found_stack, remaining_key) ==
    IF found_stack = <<>> THEN FindRet(found_stack, remaining_key)
    ELSE LET current_node == Last(found_stack)
             rest == Front(found_stack)
         IN  CASE get_type(current_node) = "leaf" ->
                    continue_finding_from_leaf(db, current_node, rest, remaining_key)
               [] get_type(current_node) = "branch" ->
                    continue_finding_from_branch(db, current_node, rest, remaining_key)
               [] get_type(current_node) = "extension" ->
                    continue_finding_from_extension(db, current_node, rest, remaining_key)
               [] OTHER -> FindErr("Node type not recognized")

RECURSIVE find_path(_, _, _)
find_path(db, found_stack, remaining_key) ==
    LET s == FindPathCall(db, found_stack, remaining_key)
    IN  IF s.tag = "rec" THEN find_path(db, s.found_stack, s.key) ELSE s

\* mutant: find_path is started on an empty stack
FindRoot_empty_stack(trie, target_key) ==
    LET maybe_node == get_node_from_database(trie.database, trie.root).v
    IN  IF maybe_node # <<>> THEN FindRec(<<>>, target_key)
        ELSE FindErr("Could not find root node in db")

\* the first step of find: the root node is the initial found-stack
FindRoot(trie, target_key) ==
    LET maybe_node == get_node_from_database(trie.database, trie.root).v
    IN  IF maybe_node # <<>> THEN FindRec(<<maybe_node[1]>>, target_key)
        ELSE FindErr("Could not find root node in db")

find(trie, target_key) ==
    LET s == FindRoot(trie, target_key)
    IN  IF s.tag = "rec" THEN find_path(trie.database, s.found_stack, s.key) ELSE s

\* ------------------------------------------------------------ Trie: process
\* (found_stack, new_stack, stack_to_delete) as returned by process and update
Stacks(found, new, del) ==
    [found_stack |-> found, new_stack |-> new, stack_to_delete |-> del]

\* Some(convert_h256_to_bytes(node.get_hash()?))
HashBytes(node) == convert_h256_to_bytes(get_hash(node))

SetSlot(branch, node_hash_bytes, nibble) ==
    update_branch_at_index(branch, node_hash_bytes, convert_nibble_to_usize(nibble)).v

process_from_extension_node(target_key, current_ext_node, found_stack, remaining_key, value) ==
    LET cp == get_common_prefix_nibbles(remaining_key, get_key(current_ext_node)).v
        common_prefix == cp[1]
        key_remainder == cp[2]
        node_key_remainder == cp[3]
        ext_split == split_at_first_nibble(node_key_remainder)
        key_split == split_at_first_nibble(key_remainder)
    IN  IF Len(common_prefix) = 0
        THEN IF ~ext_split.ok THEN ext_split
             ELSE IF ~key_split.ok THEN key_split
             ELSE LET new_leaf == get_new_leaf_node(key_split.v[2], value).v
                      new_ext == get_new_extension_node(ext_split.v[2],
                                                        get_value(current_ext_node).v)
                  IN  IF ~new_ext.ok THEN new_ext
                      ELSE LET branch == get_new_branch_node.v
                               updated_branch_1 ==
                                   SetSlot(branch, HashBytes(new_ext.v), ext_split.v[1])
                               new_branch ==
                                   SetSlot(updated_branch_1, HashBytes(new_leaf), key_split.v[1])
                           IN  Ok(Stacks(found_stack, <<new_leaf, new_ext.v, new_branch>>, <<>>))
        ELSE IF ~key_split.ok THEN key_split
             ELSE IF ~ext_split.ok THEN ext_split
             ELSE LET ext_below_branch == get_new_extension_node(ext_split.v[2],
                                                                 get_value(current_ext_node).v)
                      new_leaf == get_new_leaf_node(key_split.v[2], value).v
                  IN  IF ~ext_below_branch.ok THEN ext_below_branch
                      ELSE LET empty_branch == get_new_branch_node.v
                               updated_branch ==
                                   SetSlot(empty_branch, HashBytes(new_leaf), key_split.v[1])
                               final_branch ==
                                   SetSlot(updated_branch, HashBytes(ext_below_branch.v),
                                           ext_split.v[1])
                               final_branch_hash == HashBytes(final_branch)
                               ext_above_branch ==
                                   get_new_extension_node(common_prefix, final_branch_hash)
                           IN  IF ~ext_above_branch.ok THEN ext_above_branch
                               ELSE Ok(Stacks(found_stack,
                                              <<new_leaf, ext_below_branch.v, final_branch,
                                                ext_above_branch.v>>,
                                              <<>>))

\* mutant: the second leaf is put in the slot of the first leaf's nibble
process_from_leaf_node_same_slot(target_key, current_leaf_node, found_stack, remaining_key, value) ==
    IF Len(remaining_key) = 0
    THEN LET new_leaf == get_new_leaf_node(get_key(current_leaf_node), value).v
         IN  Ok(Stacks(found_stack, <<new_leaf>>, <<>>))
    ELSE LET cp == get_common_prefix_nibbles(remaining_key, get_key(current_leaf_node)).v
             common_prefix == cp[1]
             key_remainder == cp[2]
             node_key_remainder == cp[3]
             leaf_split == split_at_first_nibble(node_key_remainder)
             key_split == split_at_first_nibble(key_remainder)
         IN  IF ~leaf_split.ok THEN leaf_split
             ELSE IF ~key_split.ok THEN key_split
             ELSE LET new_leaf_1 == get_new_leaf_node(leaf_split.v[2],
                                                      get_value(current_leaf_node).v).v
                      new_leaf_2 == get_new_leaf_node(key_split.v[2], value).v
                      new_branch == get_new_branch_node.v
                      new_branch_hash == HashBytes(new_branch)
                      updated_branch_1 ==
                          SetSlot(new_branch, HashBytes(new_leaf_1), leaf_split.v[1])
                      updated_branch ==
                          SetSlot(updated_branch_1, HashBytes(new_leaf_2), leaf_split.v[1])
                  IN  IF Len(common_prefix) = 0
                      THEN Ok(Stacks(found_stack,
                                     <<updated_branch, new_leaf_1, new_leaf_2>>, <<>>))
                      ELSE LET new_extension ==
                                   get_new_extension_node(common_prefix, new_branch_hash)
                           IN  IF ~new_extension.ok THEN new_extension
                               ELSE Ok(Stacks(found_stack,
                                              <<new_extension.v, updated_branch,
                                                new_leaf_1, new_leaf_2>>,
                                              <<>>))

process_from_leaf_node(target_key, current_leaf_node, found_stack, remaining_key, value) ==
    IF Len(remaining_key) = 0
    THEN LET new_leaf == get_new_leaf_node(get_key(current_leaf_node), value).v
         IN  Ok(Stacks(found_stack, <<new_leaf>>, <<>>))
    ELSE LET cp == get_common_prefix_nibbles(remaining_key, get_key(current_leaf_node)).v
             common_prefix == cp[1]
             key_remainder == cp[2]
             node_key_remainder == cp[3]
             leaf_split == split_at_first_nibble(node_key_remainder)
             key_split == split_at_first_nibble(key_remainder)
         IN  IF ~leaf_split.ok THEN leaf_split
             ELSE IF ~key_split.ok THEN key_split
             ELSE LET new_leaf_1 == get_new_leaf_node(leaf_split.v[2],
                                                      get_value(current_leaf_node).v).v
                      new_leaf_2 == get_new_leaf_node(key_split.v[2], value).v
                      new_branch == get_new_branch_node.v
                      new_branch_hash == HashBytes(new_branch)
                      updated_branch_1 ==
                          SetSlot(new_branch, HashBytes(new_leaf_1), leaf_split.v[1])
                      updated_branch ==
                          SetSlot(updated_branch_1, HashBytes(new_leaf_2), key_split.v[1])
                  IN  IF Len(common_prefix) = 0
                      THEN Ok(Stacks(found_stack,
                                     <<updated_branch, new_leaf_1, new_leaf_2>>, <<>>))
                      ELSE LET new_extension ==
                                   get_new_extension_node(common_prefix, new_branch_hash)
                           IN  IF ~new_extension.ok THEN new_extension
                               ELSE Ok(Stacks(found_stack,
                                              <<new_extension.v, updated_branch,
                                                new_leaf_1, new_leaf_2>>,
                                              <<>>))

process_from_branch_node(target_key, current_branch_node, found_stack, remaining_key, value) ==
    LET split == split_at_first_nibble(remaining_key)
    IN  IF ~split.ok THEN split
        ELSE LET new_leaf == get_new_leaf_node(split.v[2], value).v
                 new_leaf_hash == HashBytes(new_leaf)
                 updated_branch == SetSlot(current_branch_node, new_leaf_hash, split.v[1])
             IN  Ok(Stacks(found_stack, <<updated_branch, new_leaf>>, <<>>))

process_found_node_stack(target_key, found_stack, remaining_key, value) ==
    IF found_stack = <<>> THEN Err("Cannot process node stack: It's empty!")
    ELSE LET node == Last(found_stack)
             rest == Front(found_stack)
         IN  CASE get_type(node) = "leaf" ->
                    process_from_leaf_node(target_key, node, rest, remaining_key, value)
               [] get_type(node) = "branch" ->
                    process_from_branch_node(target_key, node, rest, remaining_key, value)
               [] get_type(node) = "extension" ->
                    process_from_extension_node(target_key, node, rest, remaining_key, value)
               [] OTHER -> Err("Node type not recognized!")

\* ------------------------------------------------------ Trie: update stale
RECURSIVE SumKeyLengths(_)
SumKeyLengths(stack) ==
    IF stack = <<>> THEN 0 ELSE get_key_length(stack[1]) + SumKeyLengths(Tail2(stack))

get_key_length_accounted_for_in_stack(node_stack) == SumKeyLengths(node_stack)

update_nodes_from_old_extension_node(target_key, current_node, old_stack, new_stack, stack_to_delete) ==
    LET target_node_hash == get_hash(new_stack[1])
        updated_extension_node ==
            get_new_extension_node(get_key(current_node),
                                   convert_h256_to_bytes(target_node_hash))
    IN  IF ~updated_extension_node.ok THEN updated_extension_node
        ELSE Ok(Stacks(old_stack, <<updated_extension_node.v>> \o new_stack,
                       Append(stack_to_delete, current_node)))

WrappingSub(a, b) == IF a >= b THEN a - b ELSE USIZE_MAX - (b - a) + 1

\* mutant: the rewritten branch, not the stale one, goes on the delete-stack
update_nodes_from_old_branch_node_deletes_new(target_key, current_node, old_stack, new_stack, stack_to_delete) ==
    LET target_node_hash == get_hash(new_stack[1])
        key_partial_length == get_key_length_accounted_for_in_stack(new_stack)
        nibble_index == WrappingSub(Len(target_key), key_partial_length + 1)
        byte == get_nibble_at_index(target_key, nibble_index)
    IN  IF ~byte.ok THEN byte
        ELSE LET nibble == get_nibbles_from_bytes(<<byte.v>>)
                 branch_index == convert_nibble_to_usize(nibble)
                 updated_node == update_branch_at_index(
                     current_node, convert_h256_to_bytes(target_node_hash), branch_index)
             IN  IF ~updated_node.ok THEN updated_node
                 ELSE Ok(Stacks(old_stack, <<updated_node.v>> \o new_stack,
                                Append(stack_to_delete, updated_node.v)))

\* usize subtraction: a build without overflow checks wraps, and then the
\* nibble lookup fails; a build with them panics.  Both end the put.
update_nodes_from_old_branch_node(target_key, current_node, old_stack, new_stack, stack_to_delete) ==
    LET target_node_hash == get_hash(new_stack[1])
        key_partial_length == get_key_length_accounted_for_in_stack(new_stack)
        nibble_index == WrappingSub(Len(target_key), key_partial_length + 1)
        byte == get_nibble_at_index(target_key, nibble_index)
    IN  IF ~byte.ok THEN byte
        ELSE LET nibble == get_nibbles_from_bytes(<<byte.v>>)
                 branch_index == convert_nibble_to_usize(nibble)
                 updated_node == update_branch_at_index(
                     current_node, convert_h256_to_bytes(target_node_hash), branch_index)
             IN  IF ~updated_node.ok THEN updated_node
                 ELSE Ok(Stacks(old_stack, <<updated_node.v>> \o new_stack,
                                Append(stack_to_delete, current_node)))

\* mutant: an ancestor that is neither branch nor extension is passed over
update_stale_nodes_skips_other(target_key, old_stack, new_stack, stack_to_delete) ==
    IF old_stack = <<>> THEN Ok(Stacks(old_stack, new_stack, stack_to_delete))
    ELSE LET current_node == Last(old_stack)
             rest == Front(old_stack)
         IN  CASE get_type(current_node) = "branch" ->
                    update_nodes_from_old_branch_node(target_key, current_node, rest,
                                                      new_stack, stack_to_delete)
               [] get_type(current_node) = "extension" ->
                    update_nodes_from_old_extension_node(target_key, current_node, rest,
                                                         new_stack, stack_to_delete)
               [] OTHER -> Ok(Stacks(rest, new_stack, stack_to_delete))

update_stale_nodes(target_key, old_stack, new_stack, stack_to_delete) ==
    IF old_stack = <<>> THEN Ok(Stacks(old_stack, new_stack, stack_to_delete))
    ELSE LET current_node == Last(old_stack)
             rest == Front(old_stack)
         IN  CASE get_type(current_node) = "branch" ->
                    update_nodes_from_old_branch_node(target_key, current_node, rest,
                                                      new_stack, stack_to_delete)
               [] get_type(current_node) = "extension" ->
                    update_nodes_from_old_extension_node(target_key, current_node, rest,
                                                         new_stack, stack_to_delete)
               [] OTHER -> Err("Error updating old nodes: Wrong node type!")

\* ------------------------------------------------------------ Trie: commit
NewTrie(root_hash, db) == [root |-> root_hash, database |-> db]

\* mutant: the root of a new trie is the digest of the empty string, not of its rlp
get_new_trie_unencoded == NewTrie(Keccak256(<<>>), get_new_database)

get_new_trie == NewTrie(HASHED_NULL_NODE, get_new_database)

update_root_hash(trie, new_hash) == Ok(NewTrie(new_hash, trie.database))

\* mutant: the node is stored under the trie's root hash, not its own
put_node_in_database_under_root(trie, node) ==
    Ok(NewTrie(trie.root,
               put_thing_in_database(trie.database, trie.root, get_rlp_encoding(node))))

put_node_in_database(trie, node) ==
    Ok(NewTrie(trie.root,
               put_thing_in_database(trie.database, get_hash(node), get_rlp_encoding(node))))

\* mutant: the removal leaves an empty store
remove_node_from_database_drops_store(trie, node) ==
    LET db == remove_thing_from_database(trie.database, get_hash(node))
    IN  IF ~db.ok THEN db ELSE Ok(NewTrie(trie.root, get_new_database))

remove_node_from_database(trie, node) ==
    LET db == remove_thing_from_database(trie.database, get_hash(node))
    IN  IF ~db.ok THEN db ELSE Ok(NewTrie(trie.root, db.v))

CommitRet(trie) ==
    [tag |-> "ret", trie |-> trie, new_stack |-> <<>>, stack_to_delete |-> <<>>]
CommitRec(trie, new, del) ==
    [tag |-> "rec", trie |-> trie, new_stack |-> new, stack_to_delete |-> del]
CommitErr(e) ==
    [tag |-> "err", trie |-> <<>>, new_stack |-> <<>>, stack_to_delete |-> <<>>, err |-> e]

\* mutant: the last node is written but the root hash is not updated
UpdateTrieDatabaseCall_keeps_root(trie, new_stack, stack_to_delete) ==
    IF Len(stack_to_delete) > 0
    THEN LET node == Last(stack_to_delete)
             new_self == remove_node_from_database(trie, node)
         IN  IF ~new_self.ok THEN CommitErr(new_self.v)
             ELSE CommitRec(new_self.v, new_stack, Front(stack_to_delete))
    ELSE CASE Len(new_stack) = 0 -> CommitRet(trie)
           [] Len(new_stack) = 1 ->
                CommitRet(put_node_in_database(trie, Last(new_stack)).v)
           [] OTHER ->
                LET node == Last(new_stack)
                    new_self == put_node_in_database(trie, node).v
                IN  CommitRec(new_self, Front(new_stack), stack_to_delete)

\* mutant: the new nodes are written first, the stale ones removed afterwards
UpdateTrieDatabaseCall_writes_first(trie, new_stack, stack_to_delete) ==
    CASE Len(new_stack) > 1 ->
            LET node == Last(new_stack)
                new_self == put_node_in_database(trie, node).v
            IN  CommitRec(new_self, Front(new_stack), stack_to_delete)
      [] Len(new_stack) = 1 /\ Len(stack_to_delete) = 0 ->
            LET node == Last(new_stack)
                new_self == put_node_in_database(trie, node).v
            IN  CommitRet(update_root_hash(new_self, get_hash(node)).v)
      [] Len(stack_to_delete) > 0 ->
            LET node == Last(stack_to_delete)
                new_self == remove_node_from_database(trie, node)
            IN  IF ~new_self.ok THEN CommitErr(new_self.v)
                ELSE CommitRec(new_self.v, new_stack, Front(stack_to_delete))
      [] OTHER -> CommitRet(trie)

\* one invocation of update_trie_database, up to its recursive call
UpdateTrieDatabaseCall(trie, new_stack, stack_to_delete) ==
    IF Len(stack_to_delete) > 0
    THEN LET node == Last(stack_to_delete)
             new_self == remove_node_from_database(trie, node)
         IN  IF ~new_self.ok THEN CommitErr(new_self.v)
             ELSE CommitRec(new_self.v, new_stack, Front(stack_to_delete))
    ELSE CASE Len(new_stack) = 0 -> CommitRet(trie)
           [] Len(new_stack) = 1 ->
                LET node == Last(new_stack)
                    next_root_hash == get_hash(node)
                    new_self == put_node_in_database(trie, node).v
                IN  CommitRet(update_root_hash(new_self, next_root_hash).v)
           [] OTHER ->
                LET node == Last(new_stack)
                    new_self == put_node_in_database(trie, node).v
                IN  CommitRec(new_self, Front(new_stack), stack_to_delete)

RECURSIVE update_trie_database(_, _, _)
update_trie_database(trie, new_stack, stack_to_delete) ==
    LET s == UpdateTrieDatabaseCall(trie, new_stack, stack_to_delete)
    IN  IF s.tag = "rec" THEN update_trie_database(s.trie, s.new_stack, s.stack_to_delete)
        ELSE s

\* ---------------------------------------------------------------- Trie: put
\* Ok(new trie) or Err
put(trie, key, value) ==
    IF trie.root = HASHED_NULL_NODE
    THEN LET leaf == get_new_leaf_node(key, value).v
             c == update_trie_database(trie, <<leaf>>, <<>>)
         IN  IF c.tag = "ret" THEN Ok(c.trie) ELSE Err(c.err)
    ELSE LET f == find(trie, key)
         IN  IF f.tag = "err" THEN Err(f.err)
             ELSE LET p == process_found_node_stack(key, f.found_stack, f.key, value)
                  IN  IF ~p.ok THEN p
                      ELSE LET u == update_stale_nodes(key, p.v.found_stack, p.v.new_stack,
                                                       p.v.stack_to_delete)
                           IN  IF ~u.ok THEN u
                               ELSE LET c == update_trie_database(
                                                 trie, u.v.new_stack, u.v.stack_to_delete)
                                    IN  IF c.tag = "ret" THEN Ok(c.trie) ELSE Err(c.err)

\* mutant: a failing put is skipped and the fold goes on with the trie it had
RECURSIVE put_in_trie_recursively_skips_failed(_, _, _)
put_in_trie_recursively_skips_failed(trie, key_value_tuples, i) ==
    IF i = Len(key_value_tuples) THEN Ok(trie)
    ELSE LET r == put(trie, key_value_tuples[i + 1][1], key_value_tuples[i + 1][2])
         IN  put_in_trie_recursively_skips_failed(IF r.ok THEN r.v ELSE trie,
                                                  key_value_tuples, i + 1)

\* left fold of put over pairs[i+1..] (i pairs already applied)
RECURSIVE put_in_trie_recursively(_, _, _)
put_in_trie_recursively(trie, key_value_tuples, i) ==
    IF i = Len(key_value_tuples) THEN Ok(trie)
    ELSE LET r == put(trie, key_value_tuples[i + 1][1], key_value_tuples[i + 1][2])
         IN  IF ~r.ok THEN r ELSE put_in_trie_recursively(r.v, key_value_tuples, i + 1)

\* ------------------------------------------------------------ state machine
VARIABLES
    root,              \* self.root of the trie value being threaded through
    database,          \* self.database
    key_value_tuples,  \* the tuples handed to put so far (the last one is in flight)
    i,                 \* index into key_value_tuples: number of puts that returned Ok
    pc,                \* "idle", "find", "process", "update", "commit", "done"
    target_key,        \* key of the put in flight (or of the last put)
    value,             \* value of the put in flight (or of the last put)
    found_stack,
    remaining_key,
    new_stack,
    stack_to_delete,
    result,            \* what put_in_trie_recursively returned: "none", "Ok", "Err"
    pre,               \* the trie the put in flight (or the last put) was called on
    written            \* digests written to the store by the put in flight (or the last)

vars == <<root, database, key_value_tuples, i, pc, target_key, value, found_stack,
          remaining_key, new_stack, stack_to_delete, result, pre, written>>

Init ==
    /\ root = get_new_trie.root
    /\ database = get_new_trie.database
    /\ key_value_tuples = <<>>
    /\ i = 0
    /\ pc = "idle"
    /\ target_key = <<>>
    /\ value = <<>>
    /\ found_stack = <<>>
    /\ remaining_key = <<>>
    /\ new_stack = <<>>
    /\ stack_to_delete = <<>>
    /\ result = "none"
    /\ pre = get_new_trie
    /\ written = {}

\* put returned Err: put_in_trie_recursively returns it and the trie is dropped
Fail ==
    /\ pc' = "done"
    /\ result' = "Err"

CallPut(k, v) ==
    /\ key_value_tuples' = Append(key_value_tuples, <<k, v>>)
    /\ target_key' = k
    /\ value' = v
    /\ pre' = NewTrie(root, database)
    /\ written' = {}

\* put on the empty trie: a single leaf goes straight to commit
PutInEmptyTrie ==
    /\ pc = "idle"
    /\ i < MaxPuts
    /\ root = HASHED_NULL_NODE
    /\ \E k \in Keys, v \in Values :
          /\ CallPut(k, v)
          /\ new_stack' = <<get_new_leaf_node(k, v).v>>
    /\ stack_to_delete' = <<>>
    /\ pc' = "commit"
    /\ UNCHANGED <<root, database, i, found_stack, remaining_key, result>>

\* put on a non-empty trie: find loads the root node
PutFind ==
    /\ pc = "idle"
    /\ i < MaxPuts
    /\ root # HASHED_NULL_NODE
    /\ \E k \in Keys, v \in Values :
          /\ CallPut(k, v)
          /\ LET s == FindRoot(NewTrie(root, database), k)
             IN  IF s.tag = "err"
                 THEN Fail /\ UNCHANGED <<found_stack, remaining_key>>
                 ELSE /\ found_stack' = s.found_stack
                      /\ remaining_key' = s.key
                      /\ pc' = "find"
                      /\ UNCHANGED result
    /\ UNCHANGED <<root, database, i, new_stack, stack_to_delete>>

\* one invocation of find_path
FindPath ==
    /\ pc = "find"
    /\ LET s == FindPathCall(database, found_stack, remaining_key)
       IN  CASE s.tag = "err" -> Fail /\ UNCHANGED <<found_stack, remaining_key>>
             [] s.tag = "rec" -> /\ found_stack' = s.found_stack
                                 /\ remaining_key' = s.key
                                 /\ UNCHANGED <<pc, result>>
             [] s.tag = "ret" -> /\ found_stack' = s.found_stack
                                 /\ remaining_key' = s.key
                                 /\ pc' = "process"
                                 /\ UNCHANGED result
    /\ UNCHANGED <<root, database, key_value_tuples, i, target_key, value, new_stack,
                   stack_to_delete, pre, written>>

\* mutant: process stores the last node it builds before the later phases run
ProcessFoundNodeStack_writes_through ==
    /\ pc = "process"
    /\ LET p == process_found_node_stack(target_key, found_stack, remaining_key, value)
       IN  IF ~p.ok
           THEN Fail /\ UNCHANGED <<found_stack, new_stack, stack_to_delete, database>>
           ELSE /\ found_stack' = p.v.found_stack
                /\ new_stack' = p.v.new_stack
                /\ stack_to_delete' = p.v.stack_to_delete
                /\ database' = put_node_in_database(NewTrie(root, database),
                                                    Last(p.v.new_stack)).v.database
                /\ pc' = "update"
                /\ UNCHANGED result
    /\ UNCHANGED <<root, key_value_tuples, i, target_key, value, remaining_key,
                   pre, written>>

ProcessFoundNodeStack ==
    /\ pc = "process"
    /\ LET p == process_found_node_stack(target_key, found_stack, remaining_key, value)
       IN  IF ~p.ok
           THEN Fail /\ UNCHANGED <<found_stack, new_stack, stack_to_delete>>
           ELSE /\ found_stack' = p.v.found_stack
                /\ new_stack' = p.v.new_stack
                /\ stack_to_delete' = p.v.stack_to_delete
                /\ pc' = "update"
                /\ UNCHANGED result
    /\ UNCHANGED <<root, database, key_value_tuples, i, target_key, value, remaining_key,
                   pre, written>>

UpdateStaleNodes ==
    /\ pc = "update"
    /\ LET u == update_stale_nodes(target_key, found_stack, new_stack, stack_to_delete)
       IN  IF ~u.ok
           THEN Fail /\ UNCHANGED <<found_stack, new_stack, stack_to_delete>>
           ELSE /\ found_stack' = u.v.found_stack
                /\ new_stack' = u.v.new_stack
                /\ stack_to_delete' = u.v.stack_to_delete
                /\ pc' = "commit"
                /\ UNCHANGED result
    /\ UNCHANGED <<root, database, key_value_tuples, i, target_key, value, remaining_key,
                   pre, written>>

\* one invocation of update_trie_database; the last one returns from put
UpdateTrieDatabase ==
    /\ pc = "commit"
    /\ LET s == UpdateTrieDatabaseCall(NewTrie(root, database), new_stack, stack_to_delete)
       IN  IF s.tag = "err"
           THEN Fail /\ UNCHANGED <<root, database, new_stack, stack_to_delete, i, written>>
           ELSE /\ root' = s.trie.root
                /\ database' = s.trie.database
                /\ new_stack' = s.new_stack
                /\ stack_to_delete' = s.stack_to_delete
                /\ written' = IF s.new_stack # new_stack
                              THEN written \cup {get_hash(Last(new_stack))}
                              ELSE written
                /\ IF s.tag = "ret"
                   THEN pc' = "idle" /\ i' = i + 1
                   ELSE UNCHANGED <<pc, i>>
                /\ UNCHANGED result
    /\ UNCHANGED <<key_value_tuples, target_key, value, found_stack, remaining_key, pre>>

\* put_in_trie_recursively reaches i == key_value_tuples.len()
Return ==
    /\ pc = "idle"
    /\ pc' = "done"
    /\ result' = "Ok"
    /\ UNCHANGED <<root, database, key_value_tuples, i, target_key, value, found_stack,
                   remaining_key, new_stack, stack_to_delete, pre, written>>

Next ==
    \/ PutInEmptyTrie
    \/ PutFind
    \/ FindPath
    \/ ProcessFoundNodeStack
    \/ UpdateStaleNodes
    \/ UpdateTrieDatabase
    \/ Return

Spec == Init /\ [][Next]_vars

\* ------------------------------------------------------- properties: helpers
\* the last put returned Ok and no other put has started since
LastPutOk == pc = "idle" /\ i >= 1

Trie == NewTrie(root, database)

\* the node stored under digest h
NodeAt(db, h) == rlp_decode_node(db[h])

Stored(db, node) ==
    /\ get_hash(node) \in DbKeys(db)
    /\ db[get_hash(node)] = get_rlp_encoding(node)

Leaf(path, val) ==
    [type |-> "leaf", key |-> path, value |-> val, branches |-> NoBranches]
Extension(path, child_hash) ==
    [type |-> "extension", key |-> path, value |-> convert_h256_to_bytes(child_hash),
     branches |-> NoBranches]
\* the branch with exactly the two children c1, c2 at nibbles n1, n2 and no value
Branch2(n1, c1, n2, c2) ==
    [type |-> "branch", key |-> <<>>, value |-> <<>>,
     branches |-> [n \in 1..NUM_BRANCH_SLOTS |->
                      IF n = n2 + 1 THEN convert_h256_to_bytes(get_hash(c2))
                      ELSE IF n = n1 + 1 THEN convert_h256_to_bytes(get_hash(c1))
                      ELSE <<>>]]

NonEmptySlots(node) == {n \in 1..Len(node.branches) : node.branches[n] # <<>>}

\* the root of the trie the last put was called on is a leaf
PreRootIsLeaf ==
    /\ pre.root \in DbKeys(pre.database)
    /\ NodeAt(pre.database, pre.root).type = "leaf"
PreRootLeaf == NodeAt(pre.database, pre.root)

IsPrefix(a, b) == Len(a) <= Len(b) /\ SubSeq(b, 1, Len(a)) = a
StrictPrefix(a, b) == IsPrefix(a, b) /\ Len(a) < Len(b)

\* digests reachable from the root through the children of stored nodes
ChildHashes(node) ==
    CASE node.type = "extension" -> {[h256 |-> node.value[1]]}
      [] node.type = "branch" ->
            {[h256 |-> node.branches[n][1]] : n \in NonEmptySlots(node)}
      [] OTHER -> {}

RECURSIVE ReachFrom(_, _, _)
ReachFrom(db, frontier, seen) ==
    IF frontier = {} THEN seen
    ELSE LET next == UNION {ChildHashes(NodeAt(db, h)) : h \in frontier \cap DbKeys(db)}
         IN  ReachFrom(db, next \ (seen \cup frontier), seen \cup frontier)

Reachable(trie) == ReachFrom(trie.database, {trie.root}, {})

Orders(seq) ==
    LET n == Len(seq)
    IN  {[j \in 1..n |-> seq[p[j]]] :
            p \in {q \in [1..n -> 1..n] : \A a, b \in 1..n : a # b => q[a] # q[b]}}

DistinctKeys(seq) == \A a, b \in 1..Len(seq) : a # b => seq[a][1] # seq[b][1]

\* no key of the tuples is a prefix of another one (so none is empty)
PrefixFree(seq) == \A a, b \in 1..Len(seq) : a # b => ~IsPrefix(seq[a][1], seq[b][1])

\* ------------------------------------------------------------------- claims

\* C1: inserting a set of pairs with distinct keys into the empty trie gives
\* the same root whatever the insertion order.  Stated for keys none of which
\* is a prefix of another and for the orders that succeed: every permutation
\* of the puts made so far that succeeds ends with the root this order ended
\* with.
C1_PermutationInvariance ==
    (LastPutOk /\ DistinctKeys(key_value_tuples) /\ PrefixFree(key_value_tuples)) =>
        \A q \in Orders(key_value_tuples) :
            LET r == put_in_trie_recursively(get_new_trie, q, 0)
            IN  r.ok => r.v.root = root

\* C2: put on the empty trie goes straight to commit (no find, process or
\* update phase) and leaves exactly one store entry: the leaf (key, value),
\* stored as its rlp encoding under its digest, which is the new root.
C2_PutInEmptyTrie ==
    /\ (pre.root = HASHED_NULL_NODE /\ i < Len(key_value_tuples)) => pc \in {"commit"}
    /\ (LastPutOk /\ pre.root = HASHED_NULL_NODE) =>
          /\ DbKeys(database) = {root}
          /\ root = Keccak256(get_rlp_encoding(Leaf(target_key, value)))
          /\ database[root] = get_rlp_encoding(Leaf(target_key, value))

C2_Witness == LastPutOk /\ pre.root = HASHED_NULL_NODE /\ Len(target_key) = MaxKeyLen

\* C3: a freshly created trie has an empty store and the root keccak256(rlp("")).
C3_NewTrie ==
    key_value_tuples = <<>> =>
        /\ DbKeys(database) = {}
        /\ root = Keccak256(RLP_OF_EMPTY_STRING)

C3_Witness == key_value_tuples = <<>> /\ pc = "idle" /\ result = "none"

\* C4: (case L2 at a root leaf) when the key shares a non-empty prefix cp with
\* the leaf path and both continue after it, the new root is extension(cp)
\* whose child digest is the digest of the committed branch, the branch holds
\* the two shortened leaves at the diverging nibbles, and all four nodes are
\* in the store.
C4_LeafSplitWithPrefix ==
    (/\ LastPutOk
     /\ PreRootIsLeaf
     /\ LET n == CommonLen(target_key, PreRootLeaf.key)
        IN  n > 0 /\ n < Len(target_key) /\ n < Len(PreRootLeaf.key)) =>
        LET n == CommonLen(target_key, PreRootLeaf.key)
            leaf_tail == SubSeq(PreRootLeaf.key, n + 1, Len(PreRootLeaf.key))
            key_tail == SubSeq(target_key, n + 1, Len(target_key))
            leaf1 == Leaf(Tail2(leaf_tail), PreRootLeaf.value)
            leaf2 == Leaf(Tail2(key_tail), value)
            branch == Branch2(leaf_tail[1], leaf1, key_tail[1], leaf2)
            ext == Extension(SubSeq(target_key, 1, n), get_hash(branch))
        IN  /\ root = get_hash(ext)
            /\ Stored(database, ext)
            /\ Stored(database, branch)
            /\ Stored(database, leaf1)
            /\ Stored(database, leaf2)

\* C5: (case L1 at a root leaf) when the non-empty key has no common prefix
\* with the leaf path, the new root is the digest of a branch with exactly two
\* non-empty slots, at the first nibble of the old path and of the key, which
\* hold the digests of the two leaves shortened by that nibble; the branch and
\* both leaves are in the store.
C5_LeafSplitAtFirstNibble ==
    (/\ LastPutOk
     /\ PreRootIsLeaf
     /\ Len(target_key) > 0
     /\ CommonLen(target_key, PreRootLeaf.key) = 0) =>
        LET old == PreRootLeaf
            leaf1 == Leaf(Tail2(old.key), old.value)
            leaf2 == Leaf(Tail2(target_key), value)
            branch == Branch2(old.key[1], leaf1, target_key[1], leaf2)
        IN  /\ root = get_hash(branch)
            /\ Cardinality(NonEmptySlots(NodeAt(database, root))) = 2
            /\ NonEmptySlots(NodeAt(database, root)) = {old.key[1] + 1, target_key[1] + 1}
            /\ Stored(database, branch)
            /\ Stored(database, leaf1)
            /\ Stored(database, leaf2)

C5_Witness ==
    /\ LastPutOk
    /\ PreRootIsLeaf
    /\ Len(target_key) > 1
    /\ Len(PreRootLeaf.key) > 1
    /\ CommonLen(target_key, PreRootLeaf.key) = 0

\* C6: a put whose key is a strict prefix of, or strictly extends, the key
\* already in a one-leaf trie succeeds and restructures the trie as in case
\* L2: the new root is an extension over the shorter of the two keys.
C6_PrefixKeysRestructure ==
    (/\ Len(key_value_tuples) = 2
     /\ pc \in {"idle", "done"}
     /\ LET k1 == key_value_tuples[1][1]
            k2 == key_value_tuples[2][1]
        IN  /\ Len(k1) > 0 /\ Len(k2) > 0
            /\ StrictPrefix(k1, k2) \/ StrictPrefix(k2, k1)) =>
        LET k1 == key_value_tuples[1][1]
            k2 == key_value_tuples[2][1]
        IN  /\ i = 2
            /\ NodeAt(database, root).type = "extension"
            /\ NodeAt(database, root).key = IF StrictPrefix(k1, k2) THEN k1 ELSE k2

\* C7: putting (k, v) again right after a successful put(k, v) leaves the root
\* as it is (whenever the second put succeeds).
C7_Idempotence ==
    LastPutOk =>
        LET r == put(Trie, target_key, value)
        IN  r.ok => r.v.root = root

\* C8: when no other key put so far is a prefix of k, has k as a prefix or
\* shares a first nibble with k, put(k, v1) followed by put(k, v2) gives the
\* root of put(k, v2) alone (whenever both succeed).
C8_LastWrite ==
    (/\ LastPutOk
     /\ \A j \in 1..(i - 1) :
           LET k == key_value_tuples[j][1]
           IN  k # target_key =>
                  /\ ~IsPrefix(k, target_key)
                  /\ ~IsPrefix(target_key, k)
                  /\ CommonLen(k, target_key) = 0) =>
        \A v2 \in Values :
            LET both == put(Trie, target_key, v2)
                alone == put(pre, target_key, v2)
            IN  (both.ok /\ alone.ok) => both.v.root = alone.v.root

\* C9: two put sequences that differ only in the value of their last put
\* realize distinct maps, and so never end with the same root.
C9_RootIdentifiesMap ==
    LastPutOk =>
        \A v2 \in Values \ {value} :
            LET other == put(pre, target_key, v2)
            IN  other.ok => other.v.root # root

\* C10: after a successful put every digest that put wrote to the store is
\* reachable from the new root through the child digests of stored nodes.
C10_WrittenReachable ==
    LastPutOk => written \subseteq Reachable(Trie)

\* C11: after a successful put every digest in the store other than the root
\* is a child digest of some stored node (no orphan is left behind).  Stated
\* for puts of keys none of which is a prefix of another.
C11_NoOrphans ==
    (LastPutOk /\ PrefixFree(key_value_tuples)) =>
        \A h \in DbKeys(database) \ {root} :
            \E g \in DbKeys(database) : h \in ChildHashes(NodeAt(database, g))

\* C12: in every state each store entry (h, bytes) has h equal to the digest
\* of the node that bytes decodes to, whose encoding is bytes.
C12_ContentAddressed ==
    \A h \in DbKeys(database) :
        /\ get_rlp_encoding(NodeAt(database, h)) = database[h]
        /\ get_hash(NodeAt(database, h)) = h

\* a put is halfway through its commit and the store holds all three node types
C12_Witness ==
    /\ pc = "commit"
    /\ written # {}
    /\ {NodeAt(database, h).type : h \in DbKeys(database)} = {"leaf", "extension", "branch"}

\* C13: when a put fails (in find, process, spine update or commit), no new
\* trie is returned for it and the trie it was called on is unchanged: root
\* and store are those from before the call.
C13_FailedPutLeavesTrie ==
    (pc = "done" /\ result = "Err") =>
        /\ i = Len(key_value_tuples) - 1
        /\ ~put(pre, target_key, value).ok
        /\ root = pre.root
        /\ database = pre.database

\* a put failed in the spine update, after process had built its new nodes
C13_Witness ==
    /\ pc = "done"
    /\ result = "Err"
    /\ new_stack # <<>>
    /\ database # <<>>

C15_NoSingleChildBranch ==
    \A h \in DbKeys(database) :
        NodeAt(database, h).type = "branch" =>
            \/ Cardinality(NonEmptySlots(NodeAt(database, h))) >= 2
            \/ NodeAt(database, h).value # <<>>

\* the store holds a branch a leaf or extension was split into and a branch
\* that a later put gave a further child
C15_Witness ==
    /\ LastPutOk
    /\ \E g, h \in DbKeys(database) :
          /\ NodeAt(database, g).type = "branch"
          /\ NodeAt(database, h).type = "branch"
          /\ Cardinality(NonEmptySlots(NodeAt(database, g))) = 2
          /\ Cardinality(NonEmptySlots(NodeAt(database, h))) > 2

\* the left fold of put over seq, unfolded from its last pair
RECURSIVE FoldPut(_, _)
FoldPut(trie, seq) ==
    IF seq = <<>> THEN Ok(trie)
    ELSE LET r == FoldPut(trie, Front(seq))
         IN  IF ~r.ok THEN r ELSE put(r.v, Last(seq)[1], Last(seq)[2])

\* both are Ok with the same trie or both are Err with the same error
SameResult(a, b) == IF a.ok # b.ok THEN FALSE ELSE a.v = b.v

\* C16: put_in_trie_recursively(trie, pairs, i) is the left fold of put over
\* pairs[i..]: started at any index on the fold of the pairs before it, it
\* gives the fold of all pairs, which is the trie the puts made step by step
\* ended with; at i = len(pairs) it returns its trie; and once a put has
\* failed it returns that error whichever of the pairs follows again.
C16_LeftFold ==
    pc = "done" =>
        LET n == Len(key_value_tuples)
            all == put_in_trie_recursively(get_new_trie, key_value_tuples, 0)
        IN  /\ SameResult(all, FoldPut(get_new_trie, key_value_tuples))
            /\ \A j \in 1..n :
                  LET before == FoldPut(get_new_trie, SubSeq(key_value_tuples, 1, j))
                  IN  before.ok =>
                         SameResult(put_in_trie_recursively(before.v, key_value_tuples, j), all)
            /\ result = "Ok" =>
                  /\ SameResult(all, Ok(Trie))
                  /\ SameResult(put_in_trie_recursively(Trie, key_value_tuples, n), Ok(Trie))
            /\ result = "Err" =>
                  /\ ~all.ok
                  /\ \A m \in 1..n :
                        SameResult(
                            put_in_trie_recursively(
                                get_new_trie, Append(key_value_tuples, key_value_tuples[m]), 0),
                            all)

\* a fold over MaxPuts pairs with distinct keys stopped at its last pair
C16_Witness ==
    /\ pc = "done"
    /\ result = "Err"
    /\ Len(key_value_tuples) = MaxPuts
    /\ DistinctKeys(key_value_tuples)

\* the value a lookup finds descending from digest h along key k: the value
\* of the leaf whose path is what is left of k there, <<>> when there is none
RECURSIVE Descend(_, _, _)
Descend(db, h, k) ==
    IF h \notin DbKeys(db) THEN <<>>
    ELSE LET node == NodeAt(db, h)
         IN  CASE node.type = "leaf" -> IF node.key = k THEN node.value ELSE <<>>
               [] node.type = "extension" ->
                    IF IsPrefix(node.key, k)
                    THEN Descend(db, [h256 |-> node.value[1]],
                                 SubSeq(k, Len(node.key) + 1, Len(k)))
                    ELSE <<>>
               [] node.type = "branch" ->
                    IF k = <<>> \/ node.branches[k[1] + 1] = <<>> THEN <<>>
                    ELSE Descend(db, [h256 |-> node.branches[k[1] + 1][1]], Tail2(k))

\* C17: after successful puts of keys none of which is a prefix of another,
\* descending from the root along each key that was put ends at a leaf that
\* matches the rest of the key and holds the value put under it.
C17_LogicalMap ==
    (LastPutOk /\ PrefixFree(key_value_tuples)) =>
        \A m \in 1..Len(key_value_tuples) :
            Descend(database, root, key_value_tuples[m][1]) = key_value_tuples[m][2]

\* C18: for a put of any key on the trie the puts so far have built, when
\* find, process and the spine update succeed, the update leaves the
\* found-stack empty, has put every ancestor above the processed node on the
\* delete-stack, and the first node of the new-stack is the rewritten old
\* root.
C18_SpineUpdateRewritesAll ==
    LastPutOk =>
        \A k \in Keys :
            LET f == find(Trie, k)
                p == process_found_node_stack(k, f.found_stack, f.key, value)
                u == update_stale_nodes(k, p.v.found_stack, p.v.new_stack,
                                        p.v.stack_to_delete)
                n == Len(f.found_stack)
            IN  (f.tag = "ret" /\ n > 1 /\ p.ok /\ u.ok) =>
                    /\ u.v.found_stack = <<>>
                    /\ Len(u.v.stack_to_delete) = n - 1
                    /\ u.v.stack_to_delete[1] = f.found_stack[1]
                    /\ get_type(u.v.new_stack[1]) = get_type(f.found_stack[1])

\* the number of nibbles of the target key find consumed descending through
\* the nodes of stack: its path for an extension, one nibble for a branch
RECURSIVE ConsumedNibbles(_)
ConsumedNibbles(stack) ==
    IF stack = <<>> THEN 0
    ELSE ConsumedNibbles(Front(stack))
         + (IF get_type(Last(stack)) = "extension" THEN get_key_length(Last(stack)) ELSE 1)

\* C19: when the spine update has rewritten a branch, the rewritten branch is
\* the old one with the digest of the node below it set in the slot of the
\* nibble of the target key that find consumed at that branch.
C19_BranchSlotIsConsumedNibble ==
    (/\ pc = "commit"
     /\ stack_to_delete # <<>>
     /\ get_type(Last(stack_to_delete)) = "branch") =>
        LET old_branch == Last(stack_to_delete)
            consumed == target_key[ConsumedNibbles(found_stack) + 1]
        IN  new_stack[1] = SetSlot(old_branch, HashBytes(new_stack[2]), <<consumed>>)

\* the type of the root-most node of the subtree process builds from node
\* for what is left of the key: the leaf in case L0, the branch in cases L1,
\* E1 and B, the upper extension in cases L2 and E2
RootMostType(node, key) ==
    CASE get_type(node) = "leaf" ->
            IF Len(key) = 0 THEN "leaf"
            ELSE IF CommonLen(key, get_key(node)) = 0 THEN "branch" ELSE "extension"
      [] get_type(node) = "extension" ->
            IF CommonLen(key, get_key(node)) = 0 THEN "branch" ELSE "extension"
      [] OTHER -> "branch"

\* C20: whenever process succeeds, the first node of the new-stack it leaves
\* is the root-most node of the subtree it built: it has the type the case
\* gives the top of that subtree and no other new node refers to it.
C20_NewStackTopIsRootMost ==
    [][(pc = "process" /\ pc' = "update") =>
          /\ get_type(new_stack'[1]) = RootMostType(Last(found_stack), remaining_key)
          /\ \A j \in 2..Len(new_stack') :
                get_hash(new_stack'[1]) \notin ChildHashes(new_stack'[j])]_vars

\* C21: after a successful put the root digest is in the store and so is
\* every child digest held by a node reachable from the root.
C21_NoDanglingReference ==
    (LastPutOk /\ PrefixFree(key_value_tuples)) =>
        Reachable(Trie) \subseteq DbKeys(database)

\* C22: a commit that starts with a non-empty new-stack ends with every node
\* of that stack in the store under its own digest and with the root equal
\* to the digest of the node first on the stack; each of its steps that
\* writes stores the last node of the stack and leaves the nodes before it
\* on the stack, and only the step that writes the first node sets the
\* root.  A commit with both stacks empty returns the trie as it is.
C22_CommitEffect ==
    /\ [](pc = "commit" =>
            LET c == update_trie_database(Trie, new_stack, stack_to_delete)
            IN  c.tag = "ret" =>
                   /\ \A j \in 1..Len(new_stack) : Stored(c.trie.database, new_stack[j])
                   /\ c.trie.root = get_hash(new_stack[1]))
    /\ [](pc = "idle" => update_trie_database(Trie, <<>>, <<>>) = CommitRet(Trie))
    /\ [][(pc = "commit" /\ stack_to_delete = <<>> /\ pc' # "done") =>
             /\ Stored(database', Last(new_stack))
             /\ new_stack' = Front(new_stack)
             /\ IF Len(new_stack) = 1
                THEN pc' = "idle" /\ root' = get_hash(new_stack[1])
                ELSE pc' = "commit" /\ root' = root]_vars

\* a commit of four new nodes starts after the spine update rewrote the root
C22_Witness ==
    /\ pc = "commit"
    /\ Len(stack_to_delete) = 1
    /\ Len(new_stack) > 3

StackHashes(stack) == {get_hash(stack[j]) : j \in 1..Len(stack)}

\* C23: within one commit every removal comes before any write (a step that
\* removes a node writes nothing and nothing was written before it), the
\* root is the old one for as long as the commit runs, and what the commit
\* wrote is in the store when it ends; so a digest that is on the
\* delete-stack and on the new-stack is in the store after the commit.
C23_CommitOrdering ==
    /\ []((pc = "commit" /\ stack_to_delete # <<>>) =>
            /\ written = {}
            /\ LET c == update_trie_database(Trie, new_stack, stack_to_delete)
               IN  c.tag = "ret" =>
                      (StackHashes(stack_to_delete) \cap StackHashes(new_stack))
                          \subseteq DbKeys(c.trie.database))
    /\ [](pc = "commit" => root = pre.root)
    /\ [](LastPutOk => written \subseteq DbKeys(database))
    /\ [][(pc = "commit" /\ stack_to_delete # <<>> /\ pc' # "done") =>
             /\ new_stack' = new_stack
             /\ written' = written
             /\ root' = root
             /\ DbKeys(database') = DbKeys(database) \ {get_hash(Last(stack_to_delete))}]_vars

\* a commit starts whose rewritten ancestor has the digest of the stale one
C23_Witness ==
    /\ pc = "commit"
    /\ stack_to_delete # <<>>
    /\ StackHashes(stack_to_delete) \cap StackHashes(new_stack) # {}

\* what find may return as remaining key for target key k with the found
\* stack: empty when the stack ends with a leaf whose path starts with all
\* that is left of k, else the suffix of k after the nibbles consumed by the
\* nodes above the last one
FindRemainderOk(k, stack, rem) ==
    LET at == ConsumedNibbles(Front(stack))
        suffix == SubSeq(k, at + 1, Len(k))
    IN  /\ at <= Len(k)
        /\ \/ rem = suffix
           \/ /\ rem = <<>>
              /\ get_type(Last(stack)) = "leaf"
              /\ IsPrefix(suffix, get_key(Last(stack)))

\* C24: the remaining key find returns is empty at a fully matched leaf, or
\* the suffix of the target key after the paths of the extensions and the
\* single nibbles of the branches descended through: the node find stops at
\* (partly matched extension, branch with an empty slot, other leaf) leaves
\* the key as it got it.  For the find of each put, and for a find of any
\* key on the trie the puts so far have built.
C24_FindRemainingKey ==
    /\ pc = "process" => FindRemainderOk(target_key, found_stack, remaining_key)
    /\ LastPutOk =>
          \A k \in Keys :
              LET f == find(Trie, k)
              IN  f.tag = "ret" => FindRemainderOk(k, f.found_stack, f.key)

\* find has stopped at an extension it matched in part
C24_Witness ==
    /\ pc = "process"
    /\ get_type(Last(found_stack)) = "extension"
    /\ CommonLen(remaining_key, get_key(Last(found_stack))) > 0
    /\ Len(remaining_key) > 0

\* C25: find_path is never entered with an empty stack, and when find
\* returns the found-stack is non-empty and starts with the root node.  For
\* the find of each put, and for a find of any key on the trie the puts so
\* far have built.
C25_FoundStackStartsAtRoot ==
    /\ pc = "find" => found_stack # <<>>
    /\ pc = "process" =>
          /\ found_stack # <<>>
          /\ found_stack[1] = NodeAt(database, root)
    /\ LastPutOk =>
          \A k \in Keys :
              LET f == find(Trie, k)
              IN  f.tag = "ret" =>
                     /\ f.found_stack # <<>>
                     /\ f.found_stack[1] = NodeAt(database, root)

\* find has returned a stack of the root, a node below it and a third one
C25_Witness ==
    /\ LastPutOk
    /\ \E k \in Keys : LET f == find(Trie, k)
                       IN  f.tag = "ret" /\ Len(f.found_stack) = 3

\* C26: when process is about to handle a branch (case B), the remaining key
\* is not empty and the branch slot of its first nibble is empty; the branch
\* process puts first on the new-stack differs from the found one in that
\* slot and in no other, and keeps its value.  The first part also for a
\* find of any key on the trie the puts so far have built.
C26_CaseBFillsEmptySlot ==
    /\ []((pc = "process" /\ get_type(Last(found_stack)) = "branch") =>
            /\ remaining_key # <<>>
            /\ Last(found_stack).branches[remaining_key[1] + 1] = <<>>)
    /\ [](LastPutOk =>
            \A k \in Keys :
                LET f == find(Trie, k)
                IN  (f.tag = "ret" /\ get_type(Last(f.found_stack)) = "branch") =>
                       /\ f.key # <<>>
                       /\ Last(f.found_stack).branches[f.key[1] + 1] = <<>>)
    /\ [][(pc = "process" /\ get_type(Last(found_stack)) = "branch" /\ pc' = "update") =>
             /\ get_type(new_stack'[1]) = "branch"
             /\ new_stack'[1].value = Last(found_stack).value
             /\ \A n \in 1..NUM_BRANCH_SLOTS :
                   (new_stack'[1].branches[n] # Last(found_stack).branches[n])
                       <=> (n = remaining_key[1] + 1)]_vars

\* case B has run on the root branch and filled its third slot
C26_Witness ==
    /\ pc = "update"
    /\ Len(new_stack) = 2
    /\ get_type(new_stack[1]) = "branch"
    /\ Cardinality(NonEmptySlots(new_stack[1])) = 3

\* C27: every node on the delete-stack of a commit is in the store, no step
\* of a commit fails, and a put of any key on the trie the puts so far have
\* built does not fail with MissingNode.
C27_RemovalNeverFails ==
    /\ [](pc = "commit" => StackHashes(stack_to_delete) \subseteq DbKeys(database))
    /\ [](LastPutOk =>
            \A k \in Keys :
                LET r == put(Trie, k, value) IN r.ok \/ r.v # "MissingNode")
    /\ [][pc = "commit" => pc' # "done"]_vars

\* a commit has just removed the stale ancestor on its delete-stack
C27_Witness ==
    /\ pc = "commit"
    /\ stack_to_delete = <<>>
    /\ written = {}
    /\ DbKeys(database) # DbKeys(pre.database)

\* C28: the ancestors the spine update is given are extensions and branches;
\* given a found-stack that ends with a leaf, update_stale_nodes fails; and a
\* spine update that fails ends the put with root and store as they were.
C28_SpineOfExtensionsAndBranches ==
    /\ [](pc = "update" =>
            /\ \A j \in 1..Len(found_stack) :
                  get_type(found_stack[j]) \in {"extension", "branch"}
            /\ \A leaf \in {get_new_leaf_node(remaining_key, value).v, Last(new_stack)} :
                  get_type(leaf) = "leaf" =>
                     ~update_stale_nodes(target_key, Append(found_stack, leaf),
                                         new_stack, stack_to_delete).ok)
    /\ [][(pc = "update" /\ pc' = "done") =>
             /\ result' = "Err"
             /\ root' = pre.root
             /\ database' = pre.database]_vars

\* the spine update has an ancestor to rewrite
C28_Witness ==
    /\ pc = "update"
    /\ found_stack # <<>>
    /\ get_type(Last(new_stack)) = "leaf"

\* C29: a put on a non-empty trie goes through find, process, spine update
\* and commit in this order, a phase starting only when the one before it
\* has succeeded and a failure ending the put; the steps of find, process
\* and spine update leave root and store as they are.
C29_PhasesInOrder ==
    [][/\ (pc = "idle" /\ root # HASHED_NULL_NODE) => pc' \in {"find", "done"}
       /\ pc = "find" => pc' \in {"find", "process", "done"}
       /\ pc = "process" => pc' \in {"update", "done"}
       /\ pc = "update" => pc' \in {"commit", "done"}
       /\ pc = "commit" => pc' \in {"commit", "idle", "done"}
       /\ (pc' = "done" /\ pc # "idle") => result' = "Err"
       /\ pc' \in {"find", "process", "update"} => result' = "none"
       /\ (pc \in {"find", "process", "update"} \/ pc' = "find") =>
             /\ root' = root
             /\ database' = database]_vars

\* a put on a non-empty trie has come to the end of its commit
C29_Witness ==
    /\ LastPutOk
    /\ pre.root # HASHED_NULL_NODE
    /\ Cardinality(written) > 2

\* C30: when the spine update is about to rewrite a branch, the sum acc of
\* the path lengths of the nodes on the new-stack satisfies
\* acc + 1 <= len(target_key), so that len(target_key) - acc - 1 does not
\* underflow.
C30_IndexDoesNotUnderflow ==
    (/\ pc = "update"
     /\ found_stack # <<>>
     /\ get_type(Last(found_stack)) = "branch") =>
        get_key_length_accounted_for_in_stack(new_stack) + 1 <= Len(target_key)

\* a descent of find_path from the top of stack with the remaining key `key`
\* to (stack2, key2): the stack grows by the child, and the key loses the
\* whole non-empty path of an extension or the one nibble of a branch
DescentConsumes(stack, key, stack2, key2) ==
    LET node == Last(stack)
    IN  /\ Len(key2) < Len(key)
        /\ Len(stack2) = Len(stack) + 1
        /\ Front(stack2) = stack
        /\ get_type(node) \in {"extension", "branch"}
        /\ get_type(node) = "extension" =>
              Len(get_key(node)) > 0 /\ key = get_key(node) \o key2
        /\ get_type(node) = "branch" => Len(key) > 0 /\ key2 = Tail2(key)

\* every descent of the find that starts at (stack, key) consumes
RECURSIVE FindShrinks(_, _, _)
FindShrinks(db, stack, key) ==
    LET s == FindPathCall(db, stack, key)
    IN  s.tag = "rec" =>
            /\ DescentConsumes(stack, key, s.found_stack, s.key)
            /\ FindShrinks(db, s.found_stack, s.key)

\* a recursive call of update_trie_database: the delete-stack lost its top,
\* or it is empty and the new-stack lost its top
CommitShrinks ==
    \/ /\ Len(stack_to_delete) > 0
       /\ stack_to_delete' = Front(stack_to_delete)
       /\ new_stack' = new_stack
    \/ /\ stack_to_delete = <<>>
       /\ stack_to_delete' = <<>>
       /\ Len(new_stack) > 1
       /\ new_stack' = Front(new_stack)

\* C31: every put terminates. Each descent of find (through a fully matched
\* non-empty extension path, or through one branch nibble) shortens the
\* remaining key by at least one nibble, so the found-stack holds at most
\* len(key) nodes below the root; each recursive call of the commit shrinks
\* the delete-stack, or, once that is empty, the new-stack, and the commit
\* returns with both empty. The same holds of the find of any key on the
\* trie the puts so far have built, also started at an extension above its
\* root.
C31_PutTerminates ==
    /\ [][pc = "find" /\ pc' = "find" =>
            DescentConsumes(found_stack, remaining_key, found_stack', remaining_key')]_vars
    /\ [](pc \in {"find", "process"} =>
            /\ Len(found_stack) - 1 <= Len(target_key) - Len(remaining_key)
            /\ Len(found_stack) - 1 <= Len(target_key))
    /\ [](LastPutOk =>
            \A k \in Keys :
                /\ FindShrinks(database, <<NodeAt(database, root)>>, k)
                /\ \A n \in 1..Len(k) :
                      FindShrinks(database, <<Extension(SubSeq(k, 1, n), root)>>, k))
    /\ [][pc = "commit" /\ pc' = "commit" => CommitShrinks]_vars
    /\ [][pc = "commit" /\ pc' = "idle" =>
            /\ stack_to_delete = <<>> /\ Len(new_stack) <= 1
            /\ stack_to_delete' = <<>> /\ new_stack' = <<>>]_vars

\* a put that descended through a branch, removed a stale node and wrote
\* more than one new node has returned
C31_Witness ==
    /\ LastPutOk
    /\ Len(find(pre, target_key).found_stack) >= 2
    /\ Cardinality(written) >= 2
    /\ DbKeys(pre.database) \ DbKeys(database) # {}

\* the store operations are tried on every node of the store and on the
\* leaves of every key (with every value on the new trie, with the value of
\* the last put later)
Leaves == {Leaf(k, v) : k \in Keys, v \in IF i = 0 THEN Values ELSE {value}}

\* the stores a and b agree on every digest but h
SameElsewhere(a, b, h) ==
    LET others == DbKeys(a) \ {h}
    IN  /\ others = DbKeys(b) \ {h}
        /\ \A x \in others : a[x] = b[x]

\* put_node_in_database(node) adds digest(node) -> rlp(node) and changes
\* nothing else
PutNodeEffect(trie, node) ==
    LET p == put_node_in_database(trie, node)
    IN  /\ p.ok
        /\ p.v.root = trie.root
        /\ get_hash(node) \in DbKeys(p.v.database)
        /\ p.v.database[get_hash(node)] = get_rlp_encoding(node)
        /\ SameElsewhere(p.v.database, trie.database, get_hash(node))

\* remove_node_from_database(node) deletes the entry at digest(node) and
\* changes nothing else
RemoveNodeEffect(trie, node) ==
    get_hash(node) \in DbKeys(trie.database) =>
        LET r == remove_node_from_database(trie, node)
        IN  /\ r.ok
            /\ r.v.root = trie.root
            /\ get_hash(node) \notin DbKeys(r.v.database)
            /\ SameElsewhere(r.v.database, trie.database, get_hash(node))

\* the trie after put_node_in_database(node) and then
\* remove_node_from_database(node)
PutThenRemove(trie, node) ==
    remove_node_from_database(put_node_in_database(trie, node).v, node)

\* C32 as stated: put_node_in_database(node) adds the entry
\* digest(node) -> rlp(node), remove_node_from_database(node) deletes the
\* entry at digest(node), both leave the root digest and all other entries
\* unchanged, and put_node followed by remove_node of the same node restores
\* the previous store.
PutRemoveRestores(trie, node) ==
    /\ PutNodeEffect(trie, node)
    /\ RemoveNodeEffect(trie, node)
    /\ LET r == PutThenRemove(trie, node) IN r.ok /\ r.v = trie

C32_PutRemoveRestores ==
    pc = "idle" =>
        /\ \A node \in Leaves : PutRemoveRestores(Trie, node)
        /\ \A h \in DbKeys(database) : PutRemoveRestores(Trie, NodeAt(database, h))

\* C32: put_node_in_database(node) adds the entry digest(node) -> rlp(node),
\* remove_node_from_database(node) deletes the entry at digest(node), and
\* both leave the root digest and all other entries unchanged; put_node
\* followed by remove_node of the same node restores the previous store if
\* digest(node) was not in it, and leaves the previous store less that entry
\* if it was.
PutRemoveRestoresAbsent(trie, node) ==
    /\ PutNodeEffect(trie, node)
    /\ RemoveNodeEffect(trie, node)
    /\ LET r == PutThenRemove(trie, node)
       IN  /\ r.ok
           /\ IF get_hash(node) \notin DbKeys(trie.database)
              THEN r.v = trie
              ELSE r = remove_node_from_database(trie, node)

C32_PutRemoveRestoresAbsent ==
    pc = "idle" =>
        /\ \A node \in Leaves : PutRemoveRestoresAbsent(Trie, node)
        /\ \A h \in DbKeys(database) : PutRemoveRestoresAbsent(Trie, NodeAt(database, h))

\* a store of several nodes, with a leaf that is not in it and whose put and
\* removal restore it
C32_Witness ==
    /\ LastPutOk
    /\ Cardinality(DbKeys(database)) >= 3
    /\ \E node \in Leaves :
          /\ get_hash(node) \notin DbKeys(database)
          /\ put_node_in_database(Trie, node).v.database # database
          /\ PutThenRemove(Trie, node).v = Trie

====
